---- MODULE Spec2Model ----
(***************************************************************************)
(* The call coordinator of src/src/components/Call.tsx: one React          *)
(* component instance per participant, its asynchronous continuations      *)
(* (getUserMedia, createOffer, setLocalDescription), the callbacks the     *)
(* browser and the realtime client deliver to it (presence join / leave,   *)
(* remote track, data-channel open / message, ICE candidates) and the      *)
(* call_signals table it inserts into.                                     *)
(*                                                                         *)
(* JavaScript runs each handler and each continuation to its next await    *)
(* without interleaving, so each is one action.  The peer connection, the  *)
(* media devices, the presence channel and the router are external         *)
(* collaborators: their events are inputs of the model.                    *)
(***************************************************************************)
EXTENDS Naturals, Sequences, FiniteSets, Bags, TLC

\* ------------------------------------------------------------- bounds
\* initializeCall invocations per component instance (mount, Try Again,
\* effect re-runs).
MaxInit == 2
\* presence-join events for the remote participant handled per instance.
MaxJoin == 2
\* non-null ICE candidates a peer connection discovers.
MaxCand == 1

\* ------------------------------------------------------- participants
Users == {"A", "B"}
Coords == {"A", "B"}
\* The route parameter :id of /call/:id, Call.tsx line 14: the other user.
receiverId(c) == IF c = "A" THEN "B" ELSE "A"
\* ?type=video | ?type=voice, as Home.tsx navigates (lines 77-83).
CallTypes == {"video", "voice"}
\* The values searchParams.get('type') can have for a URL typed or linked:
\* "null" for no type parameter, "" for ?type= and any other string.
QueryTypes == {"null", "", "video", "voice", "Video"}

\* Line 16 without its default.
CallTypeNoDefault(q) == q

\* Call.tsx line 16: searchParams.get('type') || 'video' (null and the
\* empty string are falsy).
CallTypeOf(q) == IF q = "null" \/ q = "" THEN "video" ELSE q

\* Call.tsx lines 67-70: the constraints handed to getUserMedia.
Constraints(t) == [audio |-> TRUE, video |-> (t = "video")]

\* error.name values getUserMedia rejects with.
GumErrors == {"NotAllowedError", "NotFoundError", "NotReadableError", "OverconstrainedError"}

\* The catch without its NotReadableError branch: a busy device falls to
\* the generic message.
ErrorMessageNoBusy(name) ==
  IF name = "NotAllowedError" THEN "allow-access"
  ELSE IF name = "NotFoundError" THEN "not-found"
  ELSE "could-not-access"

\* Call.tsx lines 122-130: the message for an error name.
ErrorMessage(name) ==
  IF name = "NotAllowedError" THEN "allow-access"
  ELSE IF name = "NotFoundError" THEN "not-found"
  ELSE IF name = "NotReadableError" THEN "in-use"
  ELSE "could-not-access"

\* Call.tsx line 45: supabase.channel(`call:${receiverId}`).
ChannelName(c) == <<"call", receiverId(c)>>
NoChannel == <<>>

VARIABLES
  mounted,           \* c -> the component instance is mounted
  callType,          \* c -> searchParams 'type' of the current render
  channel,           \* c -> the presence channel subscribed to, or NoChannel
  isCallActive,      \* c -> useState, line 22
  isConnecting,      \* c -> useState, line 23
  permissionError,   \* c -> useState, line 24 ("null" or a message)
  localSrcObject,    \* c -> localVideoRef.current.srcObject: an index of inits[c], 0 for none
  peerConnectionRef, \* c -> peerConnectionRef.current: an index of inits[c], 0 for null
  channelRef,        \* c -> channelRef.current: the data channel of that index, 0 for null
  inits,             \* c -> the initializeCall invocations, each with the stream
                     \*      and peer connection it created
  offers,            \* c -> bag of createOffer invocations in flight
  call_signals,      \* bag of rows inserted into the call_signals table
  failed_signals,    \* bag of rows whose insertion the store refused
  joins,             \* c -> presence-joins of the remote participant handled
  navigated,         \* c -> endCall has called navigate('/home')
  isMuted,           \* c -> useState, line 20
  isVideoEnabled,    \* c -> useState, line 21
  lastRun            \* what the last handler did outwards: the exception it
                     \* let escape, whether it navigated, whether it sent
                     \* 'end-call' on the data channel

vars == <<mounted, callType, channel, isCallActive, isConnecting, permissionError,
          localSrcObject, peerConnectionRef, channelRef, inits, offers,
          call_signals, failed_signals, joins, navigated, isMuted, isVideoEnabled,
          lastRun>>

\* ------------------------------------------------------------ helpers
\* One initializeCall invocation: audio and video are the constraints it
\* asks getUserMedia for; st is the getUserMedia promise; live are
\* the tracks of the stream it returned, audioOn and videoOn the enabled
\* flag of its audio track and (when video was asked for) its video track;
\* the rest is the RTCPeerConnection created at line 78 and its data
\* channel (line 110).
NewInit(k) ==
  [st |-> "pending", audio |-> k.audio, video |-> k.video, live |-> FALSE,
   audioOn |-> TRUE, videoOn |-> TRUE,
   closed |-> FALSE, localDesc |-> FALSE, dc |-> "none",
   ice |-> 0, remoteDesc |-> FALSE, remoteCands |-> {}]

\* The local <video> is rendered only in the main view of a video call
\* (lines 189, 225-235): localVideoRef.current is null otherwise.
LocalVideoRendered(m, t, e) == m /\ t = "video" /\ e = "null"
\* The remote <video> is rendered in the main view (lines 189, 217-222).
RemoteVideoRendered(m, e) == m /\ e = "null"

\* srcObject lives on the DOM element: it survives only while the element does.
SrcKept(c, m, t, e) ==
  IF LocalVideoRendered(mounted[c], callType[c], permissionError[c])
     /\ LocalVideoRendered(m, t, e)
  THEN localSrcObject[c] ELSE 0

\* RTCPeerConnection.close(): the connection and its data channel close.
ClosePc(s, i) ==
  IF i = 0 THEN s
  ELSE [s EXCEPT ![i].closed = TRUE,
                 ![i].dc = IF @ = "none" THEN "none" ELSE "closed"]

\* stream.getTracks().forEach(track => track.stop()), line 181.
StopTracks(s, i) == IF i = 0 THEN s ELSE [s EXCEPT ![i].live = FALSE]

\* A handler that throws nothing, does not navigate and sends nothing.
Quiet == [threw |-> "none", navigate |-> FALSE, send |-> FALSE]

Signal(from, to, type, payload) ==
  [from_user |-> from, to_user |-> to, type |-> type, signal |-> payload]

Insert(row) == call_signals (+) SetToBag({row})

Init ==
  /\ mounted = [c \in Coords |-> FALSE]
  /\ callType = [c \in Coords |-> "video"]
  /\ channel = [c \in Coords |-> NoChannel]
  /\ isCallActive = [c \in Coords |-> FALSE]
  /\ isConnecting = [c \in Coords |-> TRUE]
  /\ permissionError = [c \in Coords |-> "null"]
  /\ localSrcObject = [c \in Coords |-> 0]
  /\ peerConnectionRef = [c \in Coords |-> 0]
  /\ channelRef = [c \in Coords |-> 0]
  /\ inits = [c \in Coords |-> <<>>]
  /\ offers = [c \in Coords |-> EmptyBag]
  /\ call_signals = EmptyBag
  /\ failed_signals = EmptyBag
  /\ joins = [c \in Coords |-> 0]
  /\ navigated = [c \in Coords |-> FALSE]
  /\ isMuted = [c \in Coords |-> FALSE]
  /\ isVideoEnabled = [c \in Coords |-> TRUE]
  /\ lastRun = Quiet

\* The route /call/:id renders Call (App.tsx line 40): first render and the
\* effect of lines 30-62: initializeCall() is started, not awaited, and the
\* presence channel is subscribed.
Mount(c, t) ==
  /\ ~mounted[c]
  /\ inits[c] = <<>>
  /\ mounted' = [mounted EXCEPT ![c] = TRUE]
  /\ callType' = [callType EXCEPT ![c] = CallTypeOf(t)]
  /\ inits' = [inits EXCEPT ![c] = <<NewInit(Constraints(CallTypeOf(t)))>>]
  /\ channel' = [channel EXCEPT ![c] = ChannelName(c)]
  /\ lastRun' = Quiet
  /\ UNCHANGED <<isCallActive, isConnecting, permissionError, localSrcObject,
                 peerConnectionRef, channelRef, offers, call_signals, joins, navigated>>
  /\ UNCHANGED <<isMuted, isVideoEnabled, failed_signals>>

\* getUserMedia resolves: lines 74-119 run to the end of initializeCall.
GumResolve(c, i) ==
  /\ i \in DOMAIN inits[c]
  /\ inits[c][i].st = "pending"
  /\ inits' = [inits EXCEPT ![c][i] =
                 [@ EXCEPT !.st = "ok", !.live = TRUE, !.dc = "connecting"]]
  /\ localSrcObject' = [localSrcObject EXCEPT ![c] =
        IF LocalVideoRendered(mounted[c], callType[c], permissionError[c])
        THEN i ELSE @]
  /\ channelRef' = [channelRef EXCEPT ![c] = i]
  /\ peerConnectionRef' = [peerConnectionRef EXCEPT ![c] = i]
  /\ lastRun' = Quiet
  /\ UNCHANGED <<mounted, callType, channel, isCallActive, isConnecting,
                 permissionError, offers, call_signals, joins, navigated>>
  /\ UNCHANGED <<isMuted, isVideoEnabled, failed_signals>>

\* A catch that also closes the peer connection in use.
GumRejectClosing(c, i, name) ==
  /\ i \in DOMAIN inits[c]
  /\ inits[c][i].st = "pending"
  /\ inits' = [inits EXCEPT ![c] =
                 ClosePc([@ EXCEPT ![i].st = "failed"], peerConnectionRef[c])]
  /\ permissionError' = [permissionError EXCEPT ![c] =
        IF mounted[c] THEN ErrorMessage(name) ELSE @]
  /\ localSrcObject' = [localSrcObject EXCEPT ![c] =
        SrcKept(c, mounted[c], callType[c], permissionError'[c])]
  /\ lastRun' = Quiet
  /\ UNCHANGED <<mounted, callType, channel, isCallActive, isConnecting,
                 peerConnectionRef, channelRef, offers, call_signals, joins,
                 navigated, isMuted, isVideoEnabled, failed_signals>>

\* getUserMedia rejects: the catch of lines 120-133.
GumReject(c, i, name) ==
  /\ i \in DOMAIN inits[c]
  /\ inits[c][i].st = "pending"
  /\ inits' = [inits EXCEPT ![c][i].st = "failed"]
  /\ permissionError' = [permissionError EXCEPT ![c] =
        IF mounted[c] THEN ErrorMessage(name) ELSE @]
  /\ localSrcObject' = [localSrcObject EXCEPT ![c] =
        SrcKept(c, mounted[c], callType[c], permissionError'[c])]
  /\ lastRun' = Quiet
  /\ UNCHANGED <<mounted, callType, channel, isCallActive, isConnecting,
                 peerConnectionRef, channelRef, offers, call_signals, joins, navigated>>
  /\ UNCHANGED <<isMuted, isVideoEnabled, failed_signals>>

\* The Try Again button of the permission screen, lines 196-201:
\* initializeCall() of the current render.
TryAgain(c) ==
  /\ mounted[c]
  /\ permissionError[c] # "null"
  /\ Len(inits[c]) < MaxInit
  /\ permissionError' = [permissionError EXCEPT ![c] = "null"]
  /\ inits' = [inits EXCEPT ![c] = Append(@, NewInit(Constraints(callType[c])))]
  /\ localSrcObject' = [localSrcObject EXCEPT ![c] = 0]
  /\ lastRun' = Quiet
  /\ UNCHANGED <<mounted, callType, channel, isCallActive, isConnecting,
                 peerConnectionRef, channelRef, offers, call_signals, joins, navigated>>
  /\ UNCHANGED <<isMuted, isVideoEnabled, failed_signals>>

\* createOffer, lines 136-140, up to its first await.  A closed connection
\* rejects createOffer(); the catch of line 149 swallows it.  n numbers the
\* invocations: each one creates an offer of its own.
createOffer(c) ==
  LET p == peerConnectionRef[c] IN
  IF p = 0 \/ inits[c][p].closed
  THEN offers[c]
  ELSE offers[c] (+) SetToBag({[st |-> "creating", pc |-> p, n |-> joins[c] + 1]})

\* The presence 'join' handler, lines 47-52.
PresenceJoin(c, uid) ==
  /\ channel[c] # NoChannel
  /\ IF uid = receiverId(c)
     THEN /\ joins[c] < MaxJoin
          /\ joins' = [joins EXCEPT ![c] = @ + 1]
          /\ isConnecting' = [isConnecting EXCEPT ![c] = FALSE]
          /\ offers' = [offers EXCEPT ![c] = createOffer(c)]
     ELSE UNCHANGED <<joins, isConnecting, offers>>
  /\ lastRun' = Quiet
  /\ UNCHANGED <<mounted, callType, channel, isCallActive, permissionError,
                 localSrcObject, peerConnectionRef, channelRef, inits,
                 call_signals, navigated>>
  /\ UNCHANGED <<isMuted, isVideoEnabled, failed_signals>>

\* createOffer() settles, line 140 to the await of line 141.  The promise
\* of a connection closed meanwhile never delivers an offer; otherwise
\* setLocalDescription is called on peerConnectionRef.current as it is now,
\* which rejects (into the catch) an offer another connection created.
OfferCreated(c, op) ==
  /\ BagIn(op, offers[c])
  /\ op.st = "creating"
  /\ LET q == peerConnectionRef[c]
         rest == offers[c] (-) SetToBag({op})
     IN offers' = [offers EXCEPT ![c] =
          IF inits[c][op.pc].closed \/ q # op.pc
          THEN rest
          ELSE rest (+) SetToBag({[st |-> "setting", pc |-> q, n |-> op.n]})]
  /\ lastRun' = Quiet
  /\ UNCHANGED <<mounted, callType, channel, isCallActive, isConnecting,
                 permissionError, localSrcObject, peerConnectionRef, channelRef,
                 inits, call_signals, joins, navigated>>
  /\ UNCHANGED <<isMuted, isVideoEnabled, failed_signals>>

\* supabase.from('call_signals').insert(row), lines 143-148 and 100-105:
\* the store accepts the row (ok) or refuses it; the result is not looked
\* at.
InsertSignal(row, ok) ==
  IF ok
  THEN call_signals' = Insert(row) /\ UNCHANGED failed_signals
  ELSE failed_signals' = failed_signals (+) SetToBag({row}) /\ UNCHANGED call_signals

\* A createOffer that tries the insertion again when the store refused it.
LocalDescriptionSetRetry(c, op, ok) ==
  /\ BagIn(op, offers[c])
  /\ op.st = "setting"
  /\ offers' = [offers EXCEPT ![c] = IF ok THEN @ (-) SetToBag({op}) ELSE @]
  /\ IF inits[c][op.pc].closed
     THEN ok /\ UNCHANGED <<inits, call_signals, failed_signals>>
     ELSE /\ inits' = [inits EXCEPT ![c][op.pc].localDesc = TRUE]
          /\ InsertSignal(Signal(c, receiverId(c), "offer", <<op.pc, op.n>>), ok)
  /\ lastRun' = Quiet
  /\ UNCHANGED <<mounted, callType, channel, isCallActive, isConnecting,
                 permissionError, localSrcObject, peerConnectionRef, channelRef,
                 joins, navigated>>
  /\ UNCHANGED <<isMuted, isVideoEnabled>>

\* setLocalDescription() settles, line 141 to the end of createOffer: the
\* offer row is inserted (lines 143-148).
LocalDescriptionSet(c, op, ok) ==
  /\ BagIn(op, offers[c])
  /\ op.st = "setting"
  /\ offers' = [offers EXCEPT ![c] = @ (-) SetToBag({op})]
  /\ IF inits[c][op.pc].closed
     THEN ok /\ UNCHANGED <<inits, call_signals, failed_signals>>
     ELSE /\ inits' = [inits EXCEPT ![c][op.pc].localDesc = TRUE]
          /\ InsertSignal(Signal(c, receiverId(c), "offer", <<op.pc, op.n>>), ok)
  /\ lastRun' = Quiet
  /\ UNCHANGED <<mounted, callType, channel, isCallActive, isConnecting,
                 permissionError, localSrcObject, peerConnectionRef, channelRef,
                 joins, navigated>>
  /\ UNCHANGED <<isMuted, isVideoEnabled>>

\* An onicecandidate without the test of line 99: the null candidate that
\* ends gathering is inserted too.
IceCandidateNoGuard(c, i, last, ok) ==
  /\ i \in DOMAIN inits[c]
  /\ inits[c][i].st = "ok" /\ ~inits[c][i].closed /\ inits[c][i].localDesc
  /\ inits[c][i].ice <= MaxCand
  /\ IF last
     THEN /\ inits' = [inits EXCEPT ![c][i].ice = MaxCand + 1]
          /\ InsertSignal(Signal(c, receiverId(c), "ice-candidate", <<i, 0>>), ok)
     ELSE /\ inits[c][i].ice < MaxCand
          /\ inits' = [inits EXCEPT ![c][i].ice = @ + 1]
          /\ InsertSignal(Signal(c, receiverId(c), "ice-candidate",
                                 <<i, inits[c][i].ice + 1>>), ok)
  /\ lastRun' = Quiet
  /\ UNCHANGED <<mounted, callType, channel, isCallActive, isConnecting,
                 permissionError, localSrcObject, peerConnectionRef, channelRef,
                 offers, joins, navigated>>
  /\ UNCHANGED <<isMuted, isVideoEnabled>>

\* peerConnection.onicecandidate, lines 98-107: gathering starts once a
\* local description is set; the last event carries a null candidate.
IceCandidate(c, i, last, ok) ==
  /\ i \in DOMAIN inits[c]
  /\ inits[c][i].st = "ok" /\ ~inits[c][i].closed /\ inits[c][i].localDesc
  /\ inits[c][i].ice <= MaxCand
  /\ IF last
     THEN /\ ok
          /\ inits' = [inits EXCEPT ![c][i].ice = MaxCand + 1]
          /\ UNCHANGED <<call_signals, failed_signals>>
     ELSE /\ inits[c][i].ice < MaxCand
          /\ inits' = [inits EXCEPT ![c][i].ice = @ + 1]
          /\ InsertSignal(Signal(c, receiverId(c), "ice-candidate",
                                 <<i, inits[c][i].ice + 1>>), ok)
  /\ lastRun' = Quiet
  /\ UNCHANGED <<mounted, callType, channel, isCallActive, isConnecting,
                 permissionError, localSrcObject, peerConnectionRef, channelRef,
                 offers, joins, navigated>>
  /\ UNCHANGED <<isMuted, isVideoEnabled>>

\* isCallActive of c after the ontrack handler, lines 90-94.
ActiveAfterTrack(c) ==
  IF RemoteVideoRendered(mounted[c], permissionError[c])
  THEN TRUE ELSE isCallActive[c]

\* peerConnection.ontrack, lines 89-95.
RemoteTrack(c, i) ==
  /\ i \in DOMAIN inits[c]
  /\ inits[c][i].st = "ok" /\ ~inits[c][i].closed
  /\ isCallActive' = [isCallActive EXCEPT ![c] = ActiveAfterTrack(c)]
  /\ isConnecting' = [isConnecting EXCEPT ![c] =
        IF RemoteVideoRendered(mounted[c], permissionError[c]) THEN FALSE ELSE @]
  /\ lastRun' = Quiet
  /\ UNCHANGED <<mounted, callType, channel, permissionError, localSrcObject,
                 peerConnectionRef, channelRef, inits, offers, call_signals,
                 joins, navigated>>
  /\ UNCHANGED <<isMuted, isVideoEnabled, failed_signals>>

\* The data channel of line 110 opens (the connection is established).
DataChannelOpen(c, i) ==
  /\ i \in DOMAIN inits[c]
  /\ inits[c][i].dc = "connecting"
  /\ inits' = [inits EXCEPT ![c][i].dc = "open"]
  /\ lastRun' = Quiet
  /\ UNCHANGED <<mounted, callType, channel, isCallActive, isConnecting,
                 permissionError, localSrcObject, peerConnectionRef, channelRef,
                 offers, call_signals, joins, navigated>>
  /\ UNCHANGED <<isMuted, isVideoEnabled, failed_signals>>

\* channelRef.current.send(...), line 176: RTCDataChannel.send throws
\* InvalidStateError unless the channel is open.
SendThrows(c) == channelRef[c] # 0 /\ inits[c][channelRef[c]].dc # "open"

\* endCall, lines 174-186.  When send throws, the handler ends there.
endCall(c) ==
  LET src == IF LocalVideoRendered(mounted[c], callType[c], permissionError[c])
             THEN localSrcObject[c] ELSE 0
  IN
  IF SendThrows(c)
  THEN /\ lastRun' = [Quiet EXCEPT !.threw = "InvalidStateError"]
       /\ UNCHANGED <<inits, isCallActive, navigated>>
  ELSE /\ inits' = [inits EXCEPT ![c] =
                      ClosePc(StopTracks(@, src), peerConnectionRef[c])]
       /\ isCallActive' = [isCallActive EXCEPT ![c] = IF mounted[c] THEN FALSE ELSE @]
       /\ navigated' = [navigated EXCEPT ![c] = TRUE]
       /\ lastRun' = [Quiet EXCEPT !.navigate = TRUE, !.send = (channelRef[c] # 0)]

\* The hang-up button of the main view, lines 273-278.  React commits the
\* route change of navigate('/home') before the click event returns, so the
\* component unmounts with the handler: the cleanup of lines 58-61
\* unsubscribes (the connection it closes is the one endCall just closed).
HangUp(c) ==
  /\ mounted[c]
  /\ permissionError[c] = "null"
  /\ endCall(c)
  /\ IF SendThrows(c)
     THEN UNCHANGED <<mounted, channel, localSrcObject>>
     ELSE /\ mounted' = [mounted EXCEPT ![c] = FALSE]
          /\ channel' = [channel EXCEPT ![c] = NoChannel]
          /\ localSrcObject' = [localSrcObject EXCEPT ![c] = 0]
  /\ UNCHANGED <<callType, isConnecting, permissionError, peerConnectionRef,
                 channelRef, offers, call_signals, joins>>
  /\ UNCHANGED <<isMuted, isVideoEnabled, failed_signals>>

\* The presence 'leave' handler, lines 53-55: any departure ends the call.
\* The route change of its navigate('/home') is rendered later (Unmount).
PresenceLeave(c, uid) ==
  /\ channel[c] # NoChannel
  /\ endCall(c)
  /\ UNCHANGED <<mounted, callType, channel, isConnecting, permissionError,
                 localSrcObject, peerConnectionRef, channelRef, offers,
                 call_signals, joins>>
  /\ UNCHANGED <<isMuted, isVideoEnabled, failed_signals>>

\* dataChannel.onmessage, lines 111-116.
DataChannelMessage(c, i, type) ==
  /\ i \in DOMAIN inits[c]
  /\ inits[c][i].dc = "open"
  /\ IF type = "end-call"
     THEN endCall(c)
     ELSE /\ lastRun' = Quiet
          /\ UNCHANGED <<inits, isCallActive, navigated>>
  /\ UNCHANGED <<mounted, callType, channel, isConnecting, permissionError,
                 localSrcObject, peerConnectionRef, channelRef, offers,
                 call_signals, joins>>
  /\ UNCHANGED <<isMuted, isVideoEnabled, failed_signals>>

\* The effect's cleanup, lines 58-61.
Cleanup(c, s) == ClosePc(s, peerConnectionRef[c])

\* The component unmounts: the route change of an endCall run from a
\* callback is rendered, or, without endCall, Go Back (line 203),
\* navigation away, or App rendering Auth when the user is lost (App.tsx
\* lines 22-31).
Unmount(c) ==
  /\ mounted[c]
  /\ mounted' = [mounted EXCEPT ![c] = FALSE]
  /\ channel' = [channel EXCEPT ![c] = NoChannel]
  /\ inits' = [inits EXCEPT ![c] = Cleanup(c, @)]
  /\ localSrcObject' = [localSrcObject EXCEPT ![c] = 0]
  /\ lastRun' = Quiet
  /\ UNCHANGED <<callType, isCallActive, isConnecting, permissionError,
                 peerConnectionRef, channelRef, offers, call_signals, joins, navigated>>
  /\ UNCHANGED <<isMuted, isVideoEnabled, failed_signals>>

\* A dependency of the effect changes (line 62), here the call type: the
\* cleanup runs, then the effect again: initializeCall() and a new
\* subscription.
DepsChange(c, t) ==
  /\ mounted[c]
  /\ CallTypeOf(t) # callType[c]
  /\ Len(inits[c]) < MaxInit
  /\ callType' = [callType EXCEPT ![c] = CallTypeOf(t)]
  /\ permissionError' = [permissionError EXCEPT ![c] = "null"]
  /\ inits' = [inits EXCEPT ![c] = Append(Cleanup(c, @),
                                        NewInit(Constraints(CallTypeOf(t))))]
  /\ channel' = [channel EXCEPT ![c] = ChannelName(c)]
  /\ localSrcObject' = [localSrcObject EXCEPT ![c] = 0]
  /\ lastRun' = Quiet
  /\ UNCHANGED <<mounted, isCallActive, isConnecting, peerConnectionRef,
                 channelRef, offers, call_signals, joins, navigated>>
  /\ UNCHANGED <<isMuted, isVideoEnabled, failed_signals>>

\* The stream toggleMute and toggleVideo find: localVideoRef.current?.srcObject
\* (lines 155, 165).
ToggleStream(c) ==
  IF LocalVideoRendered(mounted[c], callType[c], permissionError[c])
  THEN localSrcObject[c] ELSE 0

\* A toggleMute that flips getTracks() instead of getAudioTracks().
MuteToggledAllTracks(c) ==
  IF ToggleStream(c) # 0
  THEN [inits[c] EXCEPT ![ToggleStream(c)].audioOn = ~@,
                        ![ToggleStream(c)].videoOn = ~@]
  ELSE inits[c]

\* The streams of c after lines 156-160 of toggleMute.
MuteToggled(c) ==
  IF ToggleStream(c) # 0
  THEN [inits[c] EXCEPT ![ToggleStream(c)].audioOn = ~@]
  ELSE inits[c]

\* The streams of c after lines 166-170 of toggleVideo.  A stream asked
\* without video has no video track to flip.
VideoToggled(c) ==
  IF ToggleStream(c) # 0 /\ inits[c][ToggleStream(c)].video
  THEN [inits[c] EXCEPT ![ToggleStream(c)].videoOn = ~@]
  ELSE inits[c]

\* The microphone button of the main view, lines 251-258: toggleMute,
\* lines 154-162.
toggleMute(c) ==
  /\ mounted[c]
  /\ permissionError[c] = "null"
  /\ inits' = [inits EXCEPT ![c] = MuteToggled(c)]
  /\ isMuted' = [isMuted EXCEPT ![c] = IF ToggleStream(c) # 0 THEN ~@ ELSE @]
  /\ lastRun' = Quiet
  /\ UNCHANGED <<mounted, callType, channel, isCallActive, isConnecting,
                 permissionError, localSrcObject, peerConnectionRef, channelRef,
                 offers, call_signals, failed_signals, joins, navigated,
                 isVideoEnabled>>

\* The camera button, rendered in video calls only (lines 259-272):
\* toggleVideo, lines 164-172.
toggleVideo(c) ==
  /\ mounted[c]
  /\ permissionError[c] = "null"
  /\ callType[c] = "video"
  /\ inits' = [inits EXCEPT ![c] = VideoToggled(c)]
  /\ isVideoEnabled' = [isVideoEnabled EXCEPT ![c] =
        IF ToggleStream(c) # 0 THEN ~@ ELSE @]
  /\ lastRun' = Quiet
  /\ UNCHANGED <<mounted, callType, channel, isCallActive, isConnecting,
                 permissionError, localSrcObject, peerConnectionRef, channelRef,
                 offers, call_signals, failed_signals, joins, navigated,
                 isMuted>>

OfferOps == [st : {"creating", "setting"}, pc : 1..MaxInit, n : 1..MaxJoin]

\* One component instance and everything that can happen to it, but for
\* the microphone and camera buttons (ControlsSpec below), which touch only
\* the enabled flags of the tracks, isMuted and isVideoEnabled.
Step(c) ==
  \/ \E t \in CallTypes : Mount(c, t)
  \/ \E i \in 1..MaxInit : GumResolve(c, i)
  \/ \E i \in 1..MaxInit, n \in GumErrors : GumReject(c, i, n)
  \/ TryAgain(c)
  \/ \E uid \in Users : PresenceJoin(c, uid)
  \/ \E op \in OfferOps : OfferCreated(c, op)
  \/ \E op \in OfferOps, ok \in BOOLEAN : LocalDescriptionSet(c, op, ok)
  \/ \E i \in 1..MaxInit, last, ok \in BOOLEAN : IceCandidate(c, i, last, ok)
  \/ \E i \in 1..MaxInit : RemoteTrack(c, i)
  \/ \E i \in 1..MaxInit : DataChannelOpen(c, i)
  \/ HangUp(c)
  \/ \E uid \in Users : PresenceLeave(c, uid)
  \/ \E i \in 1..MaxInit, type \in {"end-call", "other"} : DataChannelMessage(c, i, type)
  \/ Unmount(c)
  \/ \E t \in CallTypes : DepsChange(c, t)

\* One participant's coordinator with its environment.
Next == Step("A")

Spec == Init /\ [][Next]_vars

\* Two participants calling each other, on the negotiation path: mount,
\* media, presence-join, offer, ICE.
PairStep(c) ==
  \/ \E t \in CallTypes : Mount(c, t)
  \/ GumResolve(c, 1)
  \/ \E uid \in Users : PresenceJoin(c, uid)
  \/ \E op \in OfferOps : OfferCreated(c, op)
  \/ \E op \in OfferOps, ok \in BOOLEAN : LocalDescriptionSet(c, op, ok)
  \/ \E last, ok \in BOOLEAN : IceCandidate(c, 1, last, ok)

PairNext == \E c \in Coords : PairStep(c)

PairSpec == Init /\ [][PairNext]_vars

\* One participant on the negotiation path, with hang-up and unmount.
RelayStep(c) ==
  \/ PairStep(c)
  \/ HangUp(c)
  \/ Unmount(c)

RelayNext == RelayStep("A")

RelaySpec == Init /\ [][RelayNext]_vars

\* Media acquisition and the component's life cycle alone: mount,
\* getUserMedia settling, Try Again, effect re-run, hang-up, unmount.
AcquireStep(c) ==
  \/ \E t \in CallTypes : Mount(c, t)
  \/ \E i \in 1..MaxInit : GumResolve(c, i)
  \/ \E i \in 1..MaxInit, n \in GumErrors : GumReject(c, i, n)
  \/ TryAgain(c)
  \/ HangUp(c)
  \/ Unmount(c)
  \/ \E t \in CallTypes : DepsChange(c, t)

AcquireNext == AcquireStep("A")

AcquireSpec == Init /\ [][AcquireNext]_vars

\* The session of one component instance without the continuation of
\* createOffer and without ICE gathering (which write only offers, the
\* local description, the candidate count and the two bags of rows): life cycle,
\* media, presence, remote track, data channel, termination.
SessionStep(c) ==
  \/ AcquireStep(c)
  \/ \E uid \in Users : PresenceJoin(c, uid)
  \/ \E i \in 1..MaxInit : RemoteTrack(c, i)
  \/ \E i \in 1..MaxInit : DataChannelOpen(c, i)
  \/ \E uid \in Users : PresenceLeave(c, uid)
  \/ \E i \in 1..MaxInit, type \in {"end-call", "other"} : DataChannelMessage(c, i, type)

SessionNext == SessionStep("A")

SessionSpec == Init /\ [][SessionNext]_vars

\* The main view's controls over the life cycle: media acquisition, the
\* microphone and camera buttons, hang-up.
ControlsStep(c) ==
  \/ AcquireStep(c)
  \/ toggleMute(c)
  \/ toggleVideo(c)

ControlsNext == ControlsStep("A")

ControlsSpec == Init /\ [][ControlsNext]_vars

\* The microphone and camera buttons during the negotiation: one
\* participant on the negotiation path, with the two buttons.
RelayControlsStep(c) ==
  \/ RelayStep(c)
  \/ toggleMute(c)
  \/ toggleVideo(c)

RelayControlsNext == RelayControlsStep("A")

RelayControlsSpec == Init /\ [][RelayControlsNext]_vars

\* Media acquisition for any URL of the route: the type parameter is any
\* of QueryTypes, at mount and when the URL changes.
UrlStep(c) ==
  \/ \E q \in QueryTypes : Mount(c, q)
  \/ \E i \in 1..MaxInit : GumResolve(c, i)
  \/ \E i \in 1..MaxInit, n \in GumErrors : GumReject(c, i, n)
  \/ TryAgain(c)
  \/ HangUp(c)
  \/ Unmount(c)
  \/ \E q \in QueryTypes : DepsChange(c, q)

UrlNext == UrlStep("A")

UrlSpec == Init /\ [][UrlNext]_vars

\* ------------------------------------------------------------- claims
\* The initializeCall invocations of c whose getUserMedia succeeded.
Acquired(c) == {i \in DOMAIN inits[c] : inits[c][i].st = "ok"}

\* Local media is acquired and the call is neither ended nor torn down:
\* Connecting or Active.
InCall(c) ==
  /\ mounted[c]
  /\ ~navigated[c]
  /\ permissionError[c] = "null"
  /\ peerConnectionRef[c] # 0
  /\ ~inits[c][peerConnectionRef[c]].closed

\* Every stream c acquired has its tracks stopped and every peer
\* connection c created is closed.
Released(c) ==
  \A i \in Acquired(c) : ~inits[c][i].live /\ inits[c][i].closed

\* The three termination triggers.
Terminate(c) ==
  \/ HangUp(c)
  \/ \E uid \in Users : PresenceLeave(c, uid)
  \/ \E i \in 1..MaxInit : DataChannelMessage(c, i, "end-call")

\* endCall has run to completion at least once.
Ended(c) == navigated[c]

\* Nothing asynchronous of c is in flight.
Quiescent(c) ==
  /\ offers[c] = EmptyBag
  /\ \A i \in DOMAIN inits[c] : inits[c][i].st # "pending"

\* C1: in Connecting or Active, for both call kinds, each termination
\* trigger runs endCall to completion (no exception escapes, the
\* navigation that unmounts the component and so unsubscribes the presence
\* channel is made) and leaves every local track stopped and the peer
\* connection closed.
C1_TerminationReleases ==
  [][\A c \in Coords :
       (InCall(c) /\ Terminate(c)) =>
         (lastRun'.threw = "none" /\ navigated'[c] /\ Released(c)')]_vars

\* C2: when the component is torn down without endCall (unmount, or the
\* effect re-running for a changed call type) after media was acquired, all
\* local tracks are stopped and the peer connection is closed.
C2_TeardownReleases ==
  [][\A c \in Coords :
       (~Ended(c) /\ Acquired(c) # {}
        /\ (Unmount(c) \/ \E t \in CallTypes : DepsChange(c, t))) =>
         Released(c)']_vars

\* C3: a second endCall raises no error, sends no second 'end-call', makes
\* no second navigation and leaves the state as the first left it.
C3_EndCallIdempotent ==
  [][\A c \in Coords :
       (Ended(c) /\ Terminate(c)) => (lastRun' = Quiet /\ UNCHANGED
          <<mounted, callType, channel, isCallActive, isConnecting,
            permissionError, localSrcObject, peerConnectionRef, channelRef,
            inits, offers, call_signals, joins, navigated>>)]_vars

\* C4: once endCall has run, a presence-join, presence-leave, data-channel
\* message or remote-track callback leaves isConnecting, isCallActive,
\* permissionError, the peer connections and the inserted signals as they
\* are.
C4_NoCallbackAfterEnded ==
  [][\A c \in Coords :
       (Ended(c)
        /\ \/ \E uid \in Users : PresenceJoin(c, uid)
           \/ \E uid \in Users : PresenceLeave(c, uid)
           \/ \E i \in 1..MaxInit, type \in {"end-call", "other"} :
                DataChannelMessage(c, i, type)
           \/ \E i \in 1..MaxInit : RemoteTrack(c, i)) =>
         UNCHANGED <<isConnecting, isCallActive, permissionError, inits,
                     peerConnectionRef, call_signals>>]_vars

\* The session of c was torn down: endCall ran, or the component unmounted.
TornDown(c) == Ended(c) \/ (~mounted[c] /\ inits[c] # <<>>)

\* C5: a getUserMedia that resolves after teardown creates no peer
\* connection, no data channel and keeps no stream; a createOffer that
\* resumes after teardown sets no local description and inserts no offer.
C5_NoResultAfterTeardown ==
  [][\A c \in Coords :
       /\ \A i \in 1..MaxInit :
            (TornDown(c) /\ GumResolve(c, i)) =>
              /\ inits'[c][i].dc = "none"
              /\ ~inits'[c][i].live
              /\ UNCHANGED <<peerConnectionRef, channelRef>>
       /\ \A op \in OfferOps :
            (TornDown(c)
             /\ (OfferCreated(c, op) \/ \E ok \in BOOLEAN : LocalDescriptionSet(c, op, ok))) =>
              /\ UNCHANGED call_signals
              /\ \A i \in DOMAIN inits[c] :
                   inits'[c][i].localDesc = inits[c][i].localDesc]_vars

\* The coordinators that have relayed an offer.
Offerers ==
  {c \in Coords : \E r \in BagToSet(call_signals) :
                    r.type = "offer" /\ r.from_user = c}

\* C6: once both coordinators are in the call and nothing is in flight,
\* exactly one of them has relayed an offer, and it is one that observed
\* the other's presence-join.
C6_ExactlyOneOfferer ==
  (\A c \in Coords : InCall(c) /\ Quiescent(c)) =>
    (Cardinality(Offerers) = 1 /\ \A c \in Offerers : joins[c] > 0)

\* C7: a coordinator that observed the remote participant's presence-join
\* (also before its peer connection existed), whose media acquisition
\* succeeded and whose session is not ended, has, once nothing is in
\* flight, set a local description and inserted an offer for the remote
\* participant.
C7_JoinLeadsToOffer ==
  \A c \in Coords :
    (joins[c] > 0 /\ InCall(c) /\ Quiescent(c)) =>
      /\ inits[c][peerConnectionRef[c]].localDesc
      /\ \E r \in BagToSet(call_signals) :
           r.type = "offer" /\ r.from_user = c /\ r.to_user = receiverId(c)

\* C8: an offer addressed to a coordinator in Connecting is, once nothing
\* of that coordinator is in flight, set as its remote description and
\* answered by an 'answer' row addressed to the offer's sender.
C8_OfferLeadsToAnswer ==
  \A c \in Coords : \A r \in BagToSet(call_signals) :
    (r.type = "offer" /\ r.to_user = c /\ InCall(c) /\ ~isCallActive[c]
     /\ Quiescent(c)) =>
      /\ inits[c][peerConnectionRef[c]].remoteDesc
      /\ \E a \in BagToSet(call_signals) :
           a.type = "answer" /\ a.from_user = c /\ a.to_user = r.from_user

\* C9: an ice-candidate row addressed to a coordinator is, once nothing
\* of that coordinator is in flight, applied to its peer connection, and
\* no error escaped.
C9_CandidatesApplied ==
  \A c \in Coords : \A r \in BagToSet(call_signals) :
    (r.type = "ice-candidate" /\ r.to_user = c /\ InCall(c) /\ Quiescent(c)) =>
      /\ r.signal \in inits[c][peerConnectionRef[c]].remoteCands
      /\ lastRun.threw = "none"

\* C10: the coordinator of A calling B and the coordinator of B calling A
\* subscribe to the same presence channel.
C10_SameChannel ==
  \A c, d \in Coords :
    (channel[c] # NoChannel /\ channel[d] # NoChannel) => channel[c] = channel[d]

\* The participants whose presence component c has announced on its
\* channel: lines 45-56 subscribe and register the two handlers; no
\* channel.track() is called, there or anywhere else.
TrackedPresences(c) == {}

\* C11: a coordinator in Connecting (media acquired, peer connection
\* created) has announced its own presence on its call channel.
C11_PresenceAnnounced ==
  \A c \in Coords :
    (InCall(c) /\ ~isCallActive[c]) => c \in TrackedPresences(c)

\* C12: an endCall run by the presence-leave handler or by the receipt of
\* the peer's 'end-call' message sends no 'end-call' on the data channel.
C12_NoticeOnlyOnHangUp ==
  [][\A c \in Coords :
       (\/ \E uid \in Users : PresenceLeave(c, uid)
        \/ \E i \in 1..MaxInit : DataChannelMessage(c, i, "end-call")) =>
         ~lastRun'.send]_vars

\* C13: a presence-leave of somebody other than the remote participant
\* leaves the session as it is, and not Ended.
C13_OnlyRemoteLeaveEnds ==
  [][\A c \in Coords : \A uid \in Users \ {receiverId(c)} :
       PresenceLeave(c, uid) =>
         /\ ~navigated'[c]
         /\ lastRun'.threw = "none"
         /\ UNCHANGED <<isCallActive, isConnecting, permissionError, inits,
                        peerConnectionRef, channelRef>>]_vars

\* The messages of the three recognised failures.
Classified == {"allow-access", "not-found", "in-use"}

\* C14 as stated: every getUserMedia failure shown to the user is classified
\* as denied, not-found or busy, never with the generic message.
C14_AlwaysClassified ==
  [][\A c \in Coords : \A i \in 1..MaxInit, n \in GumErrors :
       (mounted[c] /\ GumReject(c, i, n)) =>
         permissionError'[c] \in Classified]_vars

\* C14, amended: a failure named NotAllowedError, NotFoundError or
\* NotReadableError is shown with its own message, distinct from the other
\* two; a failure of any other name is shown with the generic message.
C14_ThreeClassified ==
  [][\A c \in Coords : \A i \in 1..MaxInit, n \in GumErrors :
       (mounted[c] /\ GumReject(c, i, n)) =>
         /\ n = "NotAllowedError" => permissionError'[c] = "allow-access"
         /\ n = "NotFoundError" => permissionError'[c] = "not-found"
         /\ n = "NotReadableError" => permissionError'[c] = "in-use"
         /\ n \notin {"NotAllowedError", "NotFoundError", "NotReadableError"} =>
              permissionError'[c] = "could-not-access"]_vars

\* A device-busy failure is on the permission screen.
C14_Witness ==
  \E c \in Coords :
    /\ permissionError[c] = "in-use"
    /\ \E i \in DOMAIN inits[c] : inits[c][i].st = "failed"

\* The permission screen is showing: PermissionDenied.
PermissionDenied(c) == mounted[c] /\ ~navigated[c] /\ permissionError[c] # "null"

\* C15: a step taken in PermissionDenied is the user's Try Again, or the
\* component going away, or it leaves the session in PermissionDenied, not
\* ended, and with no new getUserMedia call.
C15_OnlyTryAgainLeavesDenied ==
  [][\A c \in Coords :
       PermissionDenied(c) =>
         \/ TryAgain(c)
         \/ Unmount(c)
         \/ /\ permissionError'[c] # "null"
            /\ ~navigated'[c]
            /\ Len(inits'[c]) = Len(inits[c])]_vars

\* The peer connections of c that are not closed, and the streams of c
\* whose tracks are not stopped.
OpenConnections(c) == {i \in Acquired(c) : ~inits[c][i].closed}
LiveStreams(c) == {i \in Acquired(c) : inits[c][i].live}

\* C16: a component instance holds at most one unclosed peer connection
\* and at most one unreleased local stream.
C16_OneConnectionOneStream ==
  \A c \in Coords :
    Cardinality(OpenConnections(c)) <= 1 /\ Cardinality(LiveStreams(c)) <= 1

\* C17: in a call of either kind whose media is acquired, toggleMute flips
\* the enabled flag of the audio track of the stream the peer connection
\* sends, and toggleVideo (where the camera button exists) that of its
\* video track.
C17_TogglesFlipTracks ==
  \A c \in Coords :
    LET p == peerConnectionRef[c] IN
    InCall(c) =>
      /\ MuteToggled(c)[p].audioOn = ~inits[c][p].audioOn
      /\ (callType[c] = "video" /\ inits[c][p].video) =>
           VideoToggled(c)[p].videoOn = ~inits[c][p].videoOn

\* C18: isCallActive becomes true only in the handler of a remote-track
\* event, in a session whose media was acquired; and wherever a remote
\* track can arrive (an unclosed peer connection of the session), its
\* arrival leaves the session, while mounted and not ended, Active.
C18_ActiveExactlyOnTrack ==
  [][\A c \in Coords :
       /\ (isCallActive'[c] /\ ~isCallActive[c]) =>
            (Acquired(c) # {} /\ \E i \in 1..MaxInit : RemoteTrack(c, i))
       /\ (mounted'[c] /\ ~navigated'[c] /\ OpenConnections(c)' # {}) =>
            ActiveAfterTrack(c)']_vars

\* Connecting: the component is mounted, media is acquired and the peer
\* connection in use is open, no remote track has made the session Active
\* and endCall has not completed.
Connecting(c) ==
  /\ mounted[c]
  /\ ~navigated[c]
  /\ peerConnectionRef[c] # 0
  /\ ~inits[c][peerConnectionRef[c]].closed
  /\ ~isCallActive[c]

C20_FailedInsertNotRetried ==
  [][/\ \A r \in BagToSet(failed_signals') :
          CopiesIn(r, failed_signals') = 1 /\ CopiesIn(r, call_signals') = 0
     /\ failed_signals' # failed_signals =>
          \A c \in Coords :
            /\ Connecting(c) => Connecting(c)'
            /\ UNCHANGED <<peerConnectionRef, channelRef, localSrcObject>>
            /\ \A i \in DOMAIN inits[c] :
                 /\ inits'[c][i].live = inits[c][i].live
                 /\ inits'[c][i].closed = inits[c][i].closed
                 /\ inits'[c][i].dc = inits[c][i].dc]_vars

\* An offer and an ICE candidate were refused by the store and the session
\* that sent them, with nothing left in flight, is in Connecting.
C20_Witness ==
  \E c \in Coords :
    /\ Connecting(c) /\ Quiescent(c)
    /\ \E r \in BagToSet(failed_signals) : r.type = "offer" /\ r.from_user = c
    /\ \E r \in BagToSet(failed_signals) : r.type = "ice-candidate" /\ r.from_user = c

\* The number of insertions of row r the coordinators have made, given
\* the bag of the accepted and the bag of the refused rows.
Relayed(r, accepted, refused) == CopiesIn(r, accepted) + CopiesIn(r, refused)

\* The rows handed to the store, accepted or refused.
RelayedRows == BagToSet(call_signals) \cup BagToSet(failed_signals)

\* C21: the handler of a non-null ICE candidate hands exactly one
\* 'ice-candidate' row for it to the store, from the local to the remote
\* participant, whether or not the offer's row was accepted; no candidate
\* row is ever handed over twice; the handler of the null candidate hands
\* over nothing.
C21_CandidateRelayedOnce ==
  [][/\ \A r \in RelayedRows' :
          r.type = "ice-candidate" =>
            Relayed(r, call_signals', failed_signals') = 1
            /\ r.to_user = receiverId(r.from_user)
     /\ \A c \in Coords : \A i \in DOMAIN inits[c] :
          LET k == inits[c][i].ice
              row == Signal(c, receiverId(c), "ice-candidate", <<i, k + 1>>)
          IN
          /\ (inits'[c][i].ice = k + 1 /\ k < MaxCand) =>
               /\ Relayed(row, call_signals, failed_signals) = 0
               /\ Relayed(row, call_signals', failed_signals') = 1
          /\ (inits'[c][i].ice = MaxCand + 1 /\ k <= MaxCand) =>
               UNCHANGED <<call_signals, failed_signals>>]_vars

\* Gathering has ended on a connection whose offer the store refused and
\* whose candidate it accepted.
C21_Witness ==
  \E c \in Coords : \E i \in DOMAIN inits[c] :
    /\ inits[c][i].ice = MaxCand + 1
    /\ CopiesIn(Signal(c, receiverId(c), "ice-candidate", <<i, 1>>), call_signals) = 1
    /\ \E r \in BagToSet(failed_signals) : r.type = "offer" /\ r.from_user = c
    /\ ~\E r \in BagToSet(call_signals) : r.type = "offer"

\* The peer connections of c and what was negotiated on them.
Connections(c) ==
  [i \in DOMAIN inits[c] |->
     <<inits[c][i].st, inits[c][i].closed, inits[c][i].localDesc,
       inits[c][i].remoteDesc, inits[c][i].dc, inits[c][i].ice,
       inits[c][i].live>>]

\* C22: toggleMute and toggleVideo create no offer, insert no signal and
\* leave the peer connections, isConnecting, isCallActive and
\* permissionError as they are; toggleMute leaves the video tracks and
\* toggleVideo the audio tracks as they are.
C22_TogglesDoNotRenegotiate ==
  [][\A c \in Coords :
       /\ (toggleMute(c) \/ toggleVideo(c)) =>
            /\ UNCHANGED <<offers, call_signals, failed_signals,
                           peerConnectionRef, channelRef, isConnecting,
                           isCallActive, permissionError>>
            /\ Connections(c)' = Connections(c)
       /\ toggleMute(c) =>
            \A i \in DOMAIN inits[c] : inits'[c][i].videoOn = inits[c][i].videoOn
       /\ toggleVideo(c) =>
            \A i \in DOMAIN inits[c] : inits'[c][i].audioOn = inits[c][i].audioOn]_vars

\* In a video call with an offer relayed and another createOffer in flight
\* both buttons were pressed an odd number of times: the microphone is off
\* and the camera is off.
C22_Witness ==
  \E c \in Coords :
    /\ InCall(c)
    /\ localSrcObject[c] = peerConnectionRef[c]
    /\ ~inits[c][localSrcObject[c]].audioOn
    /\ ~inits[c][localSrcObject[c]].videoOn
    /\ \E r \in BagToSet(call_signals) : r.type = "offer" /\ r.from_user = c
    /\ offers[c] # EmptyBag

\* The 'offer' rows of c for its peer connection p in the store.
OffersFor(c, p) ==
  {r \in BagToSet(call_signals) : r.type = "offer" /\ r.from_user = c /\ r.signal[1] = p}

\* C23: a coordinator relays at most one offer per peer connection.
C23_OneOfferPerConnection ==
  \A c \in Coords : \A p \in DOMAIN inits[c] : Cardinality(OffersFor(c, p)) <= 1

\* C24: in a call, isMuted is true iff the audio track of the stream the
\* peer connection sends is disabled, and isVideoEnabled is true iff its
\* video track (when it has one) is enabled.
C24_FlagsMatchTracks ==
  \A c \in Coords :
    LET p == peerConnectionRef[c] IN
    InCall(c) =>
      /\ isMuted[c] = ~inits[c][p].audioOn
      /\ inits[c][p].video => (isVideoEnabled[c] = inits[c][p].videoOn)

\* C25: when the getUserMedia of an initializeCall of a mounted component
\* rejects, that invocation has no stream, no peer connection and no data
\* channel, the other invocations' streams and connections are as they
\* were, no row is handed to the store, no createOffer is started, the
\* two refs keep their values, and of the session state (isConnecting,
\* isCallActive, permissionError, the navigation) only permissionError
\* changes: it is non-null.
C25_FailureChangesOnlyPermissionError ==
  [][\A c \in Coords : \A i \in 1..MaxInit, n \in GumErrors :
       (mounted[c] /\ GumReject(c, i, n)) =>
         /\ inits'[c][i].st = "failed"
         /\ ~inits'[c][i].live /\ inits'[c][i].dc = "none"
         /\ \A j \in DOMAIN inits[c] \ {i} : inits'[c][j] = inits[c][j]
         /\ UNCHANGED <<call_signals, failed_signals, offers,
                        peerConnectionRef, channelRef, isConnecting,
                        isCallActive, navigated, mounted>>
         /\ permissionError'[c] # "null"]_vars

\* A getUserMedia failure is on the permission screen of a component whose
\* refs hold the connection and data channel an earlier invocation made.
C25_Witness ==
  \E c \in Coords :
    /\ mounted[c] /\ permissionError[c] # "null"
    /\ \E i \in DOMAIN inits[c] : inits[c][i].st = "failed"
    /\ peerConnectionRef[c] # 0 /\ channelRef[c] # 0
    /\ ~inits[c][peerConnectionRef[c]].closed

\* The initializeCall invocation a step has started, if any.
Started(c) == inits'[c][Len(inits'[c])]

\* C26 as stated: an initializeCall started for type parameter q asks for
\* audio, and for video iff q is 'video' or there is no type parameter.
C26_VideoIffVideoOrAbsent ==
  [][\A c \in Coords : \A q \in QueryTypes :
       (Mount(c, q) \/ DepsChange(c, q)) =>
         /\ Started(c).audio
         /\ Started(c).video = (q \in {"video", "null"})]_vars

\* C26, amended: an initializeCall started for type parameter q (at mount
\* or when the URL changes) asks for audio, and for video iff q is 'video',
\* is empty or there is no type parameter; Try Again asks for what the
\* current parameter says.
C26_VideoIffVideoEmptyOrAbsent ==
  [][\A c \in Coords :
       /\ \A q \in QueryTypes :
            (Mount(c, q) \/ DepsChange(c, q)) =>
              /\ Started(c).audio
              /\ Started(c).video = (q \in {"video", "null", ""})
       /\ TryAgain(c) =>
            /\ Started(c).audio
            /\ Started(c).video = (callType[c] = "video")]_vars

\* An audio-only request was followed, after the URL changed, by a request
\* with audio and video.
C26_Witness ==
  \E c \in Coords :
    /\ Len(inits[c]) >= 2
    /\ callType[c] = "video"
    /\ ~inits[c][1].video /\ inits[c][1].audio
    /\ inits[c][2].video /\ inits[c][2].audio
====
